---- MODULE Spec2Model ----
(***************************************************************************)
(* Model of the localStorage wrapper (src/src/utils/localStorage/          *)
(* localStorage.ts) and of the array helpers it calls (array.ts, kept as   *)
(* src/unnamed/part_000).                                                  *)
(*                                                                         *)
(* JavaScript values are tagged records, one payload field per type, so    *)
(* that 0, "", false, null and undefined stay different values.  The text  *)
(* held by the storage medium is a sequence of JSON tokens: JSON.stringify *)
(* and JSON.parse are modelled as the printer and the recursive-descent    *)
(* parser between values and token sequences.                              *)
(***************************************************************************)
EXTENDS Integers, Sequences, FiniteSets, TLC

VARIABLES window, storage, before, call, ret, helper, tabs

vars == <<window, storage, before, call, ret, helper, tabs>>

(***************************************************************************)
(* JavaScript values                                                       *)
(***************************************************************************)
Undefined == [t |-> "undefined"]
Null == [t |-> "null"]
Bool(b) == [t |-> "boolean", b |-> b]
Num(n) == [t |-> "number", n |-> n]
Str(s) == [t |-> "string", s |-> s]
\* a: the elements, in order
Arr(a) == [t |-> "array", a |-> a]
\* o: the own properties <<name, value>>, in insertion order
Obj(o) == [t |-> "object", o |-> o]

\* ToBoolean, as used by `!x`, `x || y` and `if (x)`
Truthy(v) ==
  CASE v.t = "undefined" -> FALSE
    [] v.t = "null" -> FALSE
    [] v.t = "boolean" -> v.b
    [] v.t = "number" -> v.n # 0
    [] v.t = "string" -> v.s # ""
    [] OTHER -> TRUE

\* x === y on the values of the model (ids are primitives)
StrictEquals(x, y) == x = y

HasProp(v, name) ==
  /\ v.t = "object"
  /\ \E i \in 1..Len(v.o) : v.o[i][1] = name

\* the own enumerable properties of v; a primitive has none
OwnProps(v) == IF v.t = "object" THEN v.o ELSE <<>>

\* v.name: the property's value, undefined when v has no such own property
GetProp(v, name) ==
  IF HasProp(v, name)
  THEN v.o[CHOOSE i \in 1..Len(v.o) : v.o[i][1] = name][2]
  ELSE Undefined

(***************************************************************************)
(* JSON text: a sequence of tokens                                         *)
(***************************************************************************)
Tok(c) == [tk |-> c]
NumTok(n) == [tk |-> "num", n |-> n]
StrTok(s) == [tk |-> "str", s |-> s]

RECURSIVE Stringify(_)
RECURSIVE StringifyElements(_, _)
RECURSIVE StringifyMembers(_, _)

\* the elements of an array from index i on, separated by commas;
\* undefined elements are written as null
StringifyElements(a, i) ==
  IF i > Len(a) THEN <<>>
  ELSE (IF i > 1 THEN <<Tok(",")>> ELSE <<>>)
       \o (IF a[i].t = "undefined" THEN <<Tok("null")>> ELSE Stringify(a[i]))
       \o StringifyElements(a, i + 1)

\* the properties of an object from index i on, in insertion order;
\* properties whose value is undefined are left out
StringifyMembers(o, first) ==
  IF o = <<>> THEN <<>>
  ELSE IF Head(o)[2].t = "undefined" THEN StringifyMembers(Tail(o), first)
  ELSE (IF first THEN <<>> ELSE <<Tok(",")>>)
       \o <<StrTok(Head(o)[1]), Tok(":")>> \o Stringify(Head(o)[2])
       \o StringifyMembers(Tail(o), FALSE)

\* JSON.stringify(v); JSON.stringify(undefined) is undefined, which setItem
\* coerces to the text `undefined`
Stringify(v) ==
  CASE v.t = "undefined" -> <<Tok("undefined")>>
    [] v.t = "null" -> <<Tok("null")>>
    [] v.t = "boolean" -> IF v.b THEN <<Tok("true")>> ELSE <<Tok("false")>>
    [] v.t = "number" -> <<NumTok(v.n)>>
    [] v.t = "string" -> <<StrTok(v.s)>>
    [] v.t = "array" -> <<Tok("[")>> \o StringifyElements(v.a, 1) \o <<Tok("]")>>
    [] v.t = "object" -> <<Tok("{")>> \o StringifyMembers(v.o, TRUE) \o <<Tok("}")>>

SyntaxError == [t |-> "SyntaxError"]

RECURSIVE ParseValue(_, _)
RECURSIVE ParseElements(_, _, _)
RECURSIVE ParseMembers(_, _, _)

\* the elements of an array; txt[i] is the first token after `[` or `,`
ParseElements(txt, i, acc) ==
  IF i > Len(txt) THEN [v |-> SyntaxError, i |-> i]
  ELSE IF txt[i] = Tok("]") /\ acc = <<>> THEN [v |-> Arr(acc), i |-> i + 1]
  ELSE LET e == ParseValue(txt, i)
       IN IF e.v = SyntaxError \/ e.i > Len(txt) THEN [v |-> SyntaxError, i |-> e.i]
          ELSE IF txt[e.i] = Tok(",") THEN ParseElements(txt, e.i + 1, Append(acc, e.v))
          ELSE IF txt[e.i] = Tok("]") THEN [v |-> Arr(Append(acc, e.v)), i |-> e.i + 1]
          ELSE [v |-> SyntaxError, i |-> e.i]

\* the properties of an object; txt[i] is the first token after `{` or `,`
ParseMembers(txt, i, acc) ==
  IF i > Len(txt) THEN [v |-> SyntaxError, i |-> i]
  ELSE IF txt[i] = Tok("}") /\ acc = <<>> THEN [v |-> Obj(acc), i |-> i + 1]
  ELSE IF txt[i].tk # "str" \/ i + 1 > Len(txt) THEN [v |-> SyntaxError, i |-> i]
  ELSE IF txt[i + 1] # Tok(":") THEN [v |-> SyntaxError, i |-> i]
  ELSE LET e == ParseValue(txt, i + 2)
           m == Append(acc, <<txt[i].s, e.v>>)
       IN IF e.v = SyntaxError \/ e.i > Len(txt) THEN [v |-> SyntaxError, i |-> e.i]
          ELSE IF txt[e.i] = Tok(",") THEN ParseMembers(txt, e.i + 1, m)
          ELSE IF txt[e.i] = Tok("}") THEN [v |-> Obj(m), i |-> e.i + 1]
          ELSE [v |-> SyntaxError, i |-> e.i]

\* one JSON value starting at txt[i]: the value and the index after it
ParseValue(txt, i) ==
  IF i > Len(txt) THEN [v |-> SyntaxError, i |-> i]
  ELSE CASE txt[i].tk = "null" -> [v |-> Null, i |-> i + 1]
         [] txt[i].tk = "true" -> [v |-> Bool(TRUE), i |-> i + 1]
         [] txt[i].tk = "false" -> [v |-> Bool(FALSE), i |-> i + 1]
         [] txt[i].tk = "num" -> [v |-> Num(txt[i].n), i |-> i + 1]
         [] txt[i].tk = "str" -> [v |-> Str(txt[i].s), i |-> i + 1]
         [] txt[i].tk = "[" -> ParseElements(txt, i + 1, <<>>)
         [] txt[i].tk = "{" -> ParseMembers(txt, i + 1, <<>>)
         [] OTHER -> [v |-> SyntaxError, i |-> i]

\* JSON.parse(txt): the whole text must be one value
Parse(txt) ==
  LET r == ParseValue(txt, 1)
  IN IF r.v # SyntaxError /\ r.i = Len(txt) + 1 THEN r.v ELSE SyntaxError

(***************************************************************************)
(* Array helpers                                                           *)
(***************************************************************************)
\* Array.prototype.isPrototypeOf(arr)
IsArray(arr) == arr.t = "array"

\* a.filter((e) => e.id !== id), for the elements a of an array
RECURSIVE FilterIdNot(_, _)
FilterIdNot(a, id) ==
  IF a = <<>> THEN <<>>
  ELSE (IF ~StrictEquals(GetProp(Head(a), "id"), id) THEN <<Head(a)>> ELSE <<>>)
       \o FilterIdNot(Tail(a), id)

\* the properties o (of the spread item) that the object a does not have yet
RECURSIVE NewProps(_, _)
NewProps(o, a) ==
  IF o = <<>> THEN <<>>
  ELSE (IF ~HasProp(a, Head(o)[1]) THEN <<Head(o)>> ELSE <<>>) \o NewProps(Tail(o), a)

\* mutant of AddArray: the item is put at the front
AddArrayFront(arr, item) ==
  IF ~Truthy(arr) \/ ~IsArray(arr) \/ ~Truthy(item) THEN Null
  ELSE Arr(<<item>> \o arr.a)

AddArray(arr, item) ==
  IF ~Truthy(arr) \/ ~IsArray(arr) \/ ~Truthy(item) THEN Null
  ELSE Arr(Append(arr.a, item))

RemoveArray(arr, id) ==
  IF ~Truthy(arr) \/ ~IsArray(arr) \/ ~Truthy(id) THEN Null
  ELSE Arr(FilterIdNot(arr.a, id))

\* mutant of Spread: { ...item, ...a }, the element's own fields win
SpreadItemFirst(a, item) ==
  LET kept == [i \in 1..Len(OwnProps(item)) |->
                 IF HasProp(a, item.o[i][1])
                 THEN <<item.o[i][1], GetProp(a, item.o[i][1])>>
                 ELSE item.o[i]]
  IN Obj(kept \o NewProps(OwnProps(a), item))

\* { ...a, ...item }: a's properties in a's order, each overridden by item's
\* property of the same name, then item's remaining properties in item's order
Spread(a, item) ==
  LET kept == [i \in 1..Len(OwnProps(a)) |->
                 IF HasProp(item, a.o[i][1])
                 THEN <<a.o[i][1], GetProp(item, a.o[i][1])>>
                 ELSE a.o[i]]
  IN Obj(kept \o NewProps(OwnProps(item), a))

UpdateArray(arr, item) ==
  IF ~Truthy(arr) \/ ~IsArray(arr) \/ ~Truthy(item) THEN Null
  ELSE Arr([i \in 1..Len(arr.a) |->
              IF StrictEquals(GetProp(arr.a[i], "id"), GetProp(item, "id"))
              THEN Spread(arr.a[i], item)
              ELSE arr.a[i]])

\* arr.find(pred): the first element satisfying it, else undefined
Find(a, id) ==
  IF \E i \in 1..Len(a) : StrictEquals(GetProp(a[i], "id"), id)
  THEN LET S == {i \in 1..Len(a) : StrictEquals(GetProp(a[i], "id"), id)}
       IN a[CHOOSE i \in S : \A j \in S : i <= j]
  ELSE Undefined

FindById(arr, id) ==
  IF ~IsArray(arr) \/ ~Truthy(arr) \/ ~Truthy(id) THEN Null
  ELSE LET item == Find(arr.a, id)
       IN IF ~Truthy(item) THEN Null ELSE item

\* s without its last element
Front(s) == SubSeq(s, 1, Len(s) - 1)

\* x == null
IsNullish(x) == x.t \in {"null", "undefined"}

\* toLocaleLowerCase() on the strings of the model
LowerCase(x) == CASE x = "A" -> "a" [] x = "B" -> "b" [] OTHER -> x

\* x.localeCompare(y) on the lower-case strings of the model
LocaleCompare(x, y) ==
  LET rank(z) == CASE z = "a" -> 1 [] z = "b" -> 2 [] OTHER -> 0
  IN rank(x) - rank(y)

\* the comparator of _ascendingOrder
AscendingCompare(a, b, key) ==
  LET x == GetProp(a, key)
      y == GetProp(b, key)
  IN IF IsNullish(x) /\ IsNullish(y) THEN 0
     ELSE IF IsNullish(x) THEN 1
     ELSE IF IsNullish(y) THEN -1
     ELSE IF x.t = "number" /\ y.t = "number" THEN x.n - y.n
     ELSE IF x.t = "string" /\ y.t = "string"
     THEN LocaleCompare(LowerCase(x.s), LowerCase(y.s))
     ELSE 0

\* mutant of DescendingCompare: the ascending comparator with its sign changed
DescendingCompareNegated(a, b, key) == 0 - AscendingCompare(a, b, key)

\* the comparator of _descendingOrder
DescendingCompare(a, b, key) ==
  LET x == GetProp(a, key)
      y == GetProp(b, key)
  IN IF IsNullish(x) /\ IsNullish(y) THEN 0
     ELSE IF IsNullish(x) THEN 1
     ELSE IF IsNullish(y) THEN -1
     ELSE IF x.t = "number" /\ y.t = "number" THEN y.n - x.n
     ELSE IF x.t = "string" /\ y.t = "string"
     THEN LocaleCompare(LowerCase(y.s), LowerCase(x.s))
     ELSE 0

Compare(a, b, key, descending) ==
  IF descending THEN DescendingCompare(a, b, key) ELSE AscendingCompare(a, b, key)

\* Array.prototype.sort(comparator): a stable sort; x goes after the elements
\* of the sorted s that the comparator does not put after it
RECURSIVE InsertSorted(_, _, _, _)
InsertSorted(s, x, key, descending) ==
  IF s = <<>> THEN <<x>>
  ELSE IF Compare(s[Len(s)], x, key, descending) > 0
  THEN Append(InsertSorted(Front(s), x, key, descending), s[Len(s)])
  ELSE Append(s, x)

RECURSIVE ArraySort(_, _, _)
ArraySort(a, key, descending) ==
  IF a = <<>> THEN <<>>
  ELSE InsertSorted(ArraySort(Front(a), key, descending), a[Len(a)], key, descending)

\* arr.sort is not a function (or arr is null): the call throws
TypeError == [t |-> "TypeError"]

AscendingOrder(arr, key) ==
  IF ~IsArray(arr) THEN TypeError
  ELSE Arr(ArraySort(arr.a, key, FALSE))

DescendingOrder(arr, key) ==
  IF ~Truthy(arr) \/ ~IsArray(arr) THEN Null
  ELSE Arr(ArraySort(arr.a, key, TRUE))

\* Array.from(new Set(texts)): the first occurrence of each text, in order
RECURSIVE Distinct(_)
Distinct(texts) ==
  IF texts = <<>> THEN <<>>
  ELSE LET rest == Distinct(Front(texts))
           x == texts[Len(texts)]
       IN IF \E i \in 1..Len(rest) : rest[i] = x THEN rest ELSE Append(rest, x)

RemoveDuplicates(arr) ==
  IF ~Truthy(arr) \/ ~IsArray(arr) THEN Null
  ELSE LET texts == Distinct([i \in 1..Len(arr.a) |-> Stringify(arr.a[i])])
       IN Arr([i \in 1..Len(texts) |-> Parse(texts[i])])

(***************************************************************************)
(* The storage medium: a map from the keys that have an entry to their text *)
(***************************************************************************)
EmptyStorage == [k \in {} |-> <<>>]

HasEntry(st, key) == key \in DOMAIN st

\* localStorage.setItem(key, text)
SetItemText(st, key, text) ==
  [k \in DOMAIN st \cup {key} |-> IF k = key THEN text ELSE st[k]]

(***************************************************************************)
(* The wrapper                                                             *)
(***************************************************************************)
WINDOW_IS_UNDEFINED == "The window object is not defined"
NO_KEY == "No key was provided"
NO_DEFAULT_VALUE == "No default value was provided"
ALREADY_EXISTS == "An item in local storage is already initialized with this key"
NOT_ASSOCIATED == "No local storage entry is associated with this key"
UNABLE_TO_ADD == "Unable to add the item to the array"
UNABLE_TO_UPDATE == "Unable to update the item in the array"
UNABLE_TO_FIND == "Unable to find the item in the array"
NOT_ARRAY_TYPE == "The local storage value is not of array type"
ARRAY_NULL == "The existing array is null"

\* the envelope has no `error` property
NoError == "undefined"

ErrorLS == {WINDOW_IS_UNDEFINED, NO_KEY, NO_DEFAULT_VALUE, ALREADY_EXISTS,
            NOT_ASSOCIATED, UNABLE_TO_ADD, UNABLE_TO_UPDATE, UNABLE_TO_FIND,
            NOT_ARRAY_TYPE, ARRAY_NULL}

\* { state: false, error, variables }
Failure(error) == [state |-> FALSE, error |-> error, result |-> Undefined]
\* { state: true, variables }
Success == [state |-> TRUE, error |-> NoError, result |-> Undefined]
\* { state: true, variables, result }
SuccessWith(result) == [state |-> TRUE, error |-> NoError, result |-> result]

\* an operation's outcome: the envelope it returns and the medium it leaves
Outcome(r, st) == [ret |-> r, storage |-> st]

\* mutant of GetItem: a falsy deserialized value is taken for a missing entry
GetItemFalsyMissing(w, st, key) ==
  IF ~w THEN Failure(WINDOW_IS_UNDEFINED)
  ELSE IF key = "" THEN Failure(NO_KEY)
  ELSE IF ~HasEntry(st, key) \/ st[key] = <<>> THEN Failure(NOT_ASSOCIATED)
  ELSE IF ~Truthy(Parse(st[key])) THEN Failure(NOT_ASSOCIATED)
  ELSE SuccessWith(Parse(st[key]))

GetItem(w, st, key) ==
  IF ~w THEN Failure(WINDOW_IS_UNDEFINED)
  ELSE IF key = "" THEN Failure(NO_KEY)
  ELSE IF ~HasEntry(st, key) \/ st[key] = <<>> THEN Failure(NOT_ASSOCIATED)
  ELSE SuccessWith(Parse(st[key]))

\* mutant of GetArray: the not-an-array case gives no error code
GetArrayNoError(w, st, key) ==
  LET oldArray == GetItem(w, st, key)
  IN IF oldArray.error # NoError THEN [error |-> oldArray.error, result |-> Null]
     ELSE IF ~IsArray(oldArray.result) THEN [error |-> NoError, result |-> Null]
     ELSE IF ~Truthy(oldArray.result) THEN [error |-> ARRAY_NULL, result |-> Null]
     ELSE [error |-> NoError, result |-> oldArray.result]

\* { error, result }: result is null whenever an error is given
GetArray(w, st, key) ==
  LET oldArray == GetItem(w, st, key)
  IN IF oldArray.error # NoError THEN [error |-> oldArray.error, result |-> Null]
     ELSE IF ~IsArray(oldArray.result) THEN [error |-> NOT_ARRAY_TYPE, result |-> Null]
     ELSE IF ~Truthy(oldArray.result) THEN [error |-> ARRAY_NULL, result |-> Null]
     ELSE [error |-> NoError, result |-> oldArray.result]

\* mutant of InitializeStorage: the default value is tested before the window
InitializeStorageDefaultFirst(w, st, key, defaultValue) ==
  IF defaultValue = Undefined THEN Outcome(Failure(NO_DEFAULT_VALUE), st)
  ELSE IF ~w THEN Outcome(Failure(WINDOW_IS_UNDEFINED), st)
  ELSE LET got == GetItem(w, st, key)
       IN IF got.error # NoError /\ got.error # NOT_ASSOCIATED
          THEN Outcome(Failure(got.error), st)
          ELSE IF Truthy(got.result) \/ got.result = Null \/ got.result = Bool(FALSE)
          THEN Outcome(Failure(ALREADY_EXISTS), st)
          ELSE Outcome(Success, SetItemText(st, key, Stringify(defaultValue)))

InitializeStorage(w, st, key, defaultValue) ==
  IF ~w THEN Outcome(Failure(WINDOW_IS_UNDEFINED), st)
  ELSE IF defaultValue = Undefined THEN Outcome(Failure(NO_DEFAULT_VALUE), st)
  ELSE LET got == GetItem(w, st, key)
       IN IF got.error # NoError /\ got.error # NOT_ASSOCIATED
          THEN Outcome(Failure(got.error), st)
          ELSE IF Truthy(got.result) \/ got.result = Null \/ got.result = Bool(FALSE)
          THEN Outcome(Failure(ALREADY_EXISTS), st)
          ELSE Outcome(Success, SetItemText(st, key, Stringify(defaultValue)))

\* mutant of SetItem: the medium is emptied before the entry is written
SetItemAlone(w, st, key, item) ==
  IF ~w THEN Outcome(Failure(WINDOW_IS_UNDEFINED), st)
  ELSE IF key = "" THEN Outcome(Failure(NO_KEY), st)
  ELSE Outcome(Success, SetItemText(EmptyStorage, key, Stringify(item)))

SetItem(w, st, key, item) ==
  IF ~w THEN Outcome(Failure(WINDOW_IS_UNDEFINED), st)
  ELSE IF key = "" THEN Outcome(Failure(NO_KEY), st)
  ELSE Outcome(Success, SetItemText(st, key, Stringify(item)))

\* mutant of PushItem: a key with no entry gets a new one-element sequence
PushItemCreates(w, st, key, item) ==
  IF ~w THEN Outcome(Failure(WINDOW_IS_UNDEFINED), st)
  ELSE LET oldArray == GetArray(w, st, key)
           newArray == AddArray(oldArray.result, item)
       IN IF oldArray.error = NOT_ASSOCIATED
          THEN Outcome(Success, SetItemText(st, key, Stringify(Arr(<<item>>))))
          ELSE IF oldArray.error # NoError \/ oldArray.result = Null
          THEN Outcome(Failure(oldArray.error), st)
          ELSE IF newArray = Null THEN Outcome(Failure(UNABLE_TO_ADD), st)
          ELSE Outcome(Success, SetItemText(st, key, Stringify(newArray)))

PushItem(w, st, key, item) ==
  IF ~w THEN Outcome(Failure(WINDOW_IS_UNDEFINED), st)
  ELSE LET oldArray == GetArray(w, st, key)
           newArray == AddArray(oldArray.result, item)
       IN IF oldArray.error # NoError \/ oldArray.result = Null
          THEN Outcome(Failure(oldArray.error), st)
          ELSE IF newArray = Null THEN Outcome(Failure(UNABLE_TO_ADD), st)
          ELSE Outcome(Success, SetItemText(st, key, Stringify(newArray)))

RemoveItem(w, st, key, id) ==
  IF ~w THEN Outcome(Failure(WINDOW_IS_UNDEFINED), st)
  ELSE LET oldArray == GetArray(w, st, key)
           newArray == RemoveArray(oldArray.result, id)
       IN IF oldArray.error # NoError \/ oldArray.result = Null
          THEN Outcome(Failure(oldArray.error), st)
          ELSE Outcome(Success, SetItemText(st, key, Stringify(newArray)))

\* mutant of UpdateItem: the new value is stored before it is tested for null
UpdateItemWritesFirst(w, st, key, updatedItem) ==
  IF ~w THEN Outcome(Failure(WINDOW_IS_UNDEFINED), st)
  ELSE LET oldArray == GetArray(w, st, key)
           newArray == UpdateArray(oldArray.result, updatedItem)
       IN IF oldArray.error # NoError \/ oldArray.result = Null
          THEN Outcome(Failure(oldArray.error), st)
          ELSE IF newArray = Null
          THEN Outcome(Failure(UNABLE_TO_UPDATE), SetItemText(st, key, Stringify(newArray)))
          ELSE Outcome(Success, SetItemText(st, key, Stringify(newArray)))

UpdateItem(w, st, key, updatedItem) ==
  IF ~w THEN Outcome(Failure(WINDOW_IS_UNDEFINED), st)
  ELSE LET oldArray == GetArray(w, st, key)
           newArray == UpdateArray(oldArray.result, updatedItem)
       IN IF oldArray.error # NoError \/ oldArray.result = Null
          THEN Outcome(Failure(oldArray.error), st)
          ELSE IF newArray = Null THEN Outcome(Failure(UNABLE_TO_UPDATE), st)
          ELSE Outcome(Success, SetItemText(st, key, Stringify(newArray)))

FindItemById(w, st, key, id) ==
  IF ~w THEN Outcome(Failure(WINDOW_IS_UNDEFINED), st)
  ELSE LET oldArray == GetArray(w, st, key)
           res == FindById(oldArray.result, id)
       IN IF oldArray.error # NoError \/ oldArray.result = Null
          THEN Outcome(Failure(oldArray.error), st)
          ELSE IF ~Truthy(res) THEN Outcome(Failure(UNABLE_TO_FIND), st)
          ELSE Outcome(SuccessWith(res), st)

\* mutant of Clear: the entry is removed instead of being overwritten with null
ClearRemoves(w, st, key) ==
  IF ~w THEN Outcome(Failure(WINDOW_IS_UNDEFINED), st)
  ELSE LET oldItems == GetItem(w, st, key)
       IN IF oldItems.error # NoError THEN Outcome(Failure(oldItems.error), st)
          ELSE Outcome(Success, [k \in DOMAIN st \ {key} |-> st[k]])

Clear(w, st, key) ==
  IF ~w THEN Outcome(Failure(WINDOW_IS_UNDEFINED), st)
  ELSE LET oldItems == GetItem(w, st, key)
       IN IF oldItems.error # NoError THEN Outcome(Failure(oldItems.error), st)
          ELSE Outcome(Success, SetItemText(st, key, Stringify(Null)))

\* mutant of ClearAll: every entry is overwritten with null, as clear does
ClearAllNulls(w, st) ==
  IF ~w THEN Outcome(Failure(WINDOW_IS_UNDEFINED), st)
  ELSE Outcome(Success, [k \in DOMAIN st |-> Stringify(Null)])

ClearAll(w, st) ==
  IF ~w THEN Outcome(Failure(WINDOW_IS_UNDEFINED), st)
  ELSE Outcome(Success, EmptyStorage)

(***************************************************************************)
(* Bounds and inputs                                                       *)
(***************************************************************************)
\* push is called only while the stored sequence is shorter than this
MaxLen == 2

\* "" is the missing key; "users" holds sequences, "theme" holds single values
Keys == {"", "users", "theme"}

UserA == Obj(<< <<"id", Num(1)>>, <<"name", Str("A")>>, <<"age", Num(5)>> >>)
UserB == Obj(<< <<"id", Num(1)>>, <<"name", Str("B")>>, <<"age", Num(5)>> >>)
UserZ == Obj(<< <<"id", Num(0)>>, <<"name", Str("Z")>> >>)
PatchB == Obj(<< <<"id", Num(1)>>, <<"name", Str("B")>> >>)
PatchNoId == Obj(<< <<"name", Str("B")>> >>)

\* the JSON values offered to initialize and set: under "users" every type of
\* value, the falsy ones included; under the other keys a setting
Singles == {Null, Bool(FALSE), Num(0), Str(""), UserA}
Arrays == {Arr(<<>>), Arr(<<UserA, UserZ, UserB>>)}
Settings == {Str(""), Str("dark")}
JsonValues(key) == IF key = "users" THEN Singles \cup Arrays ELSE Settings
\* the items, ids and partial records offered to the sequence operations
Items(key) ==
  IF key = "users"
  THEN {Undefined, Null, Num(0), Str(""), Bool(FALSE), UserA, UserZ}
  ELSE {Null, UserA}
Ids(key) ==
  IF key = "users" THEN {Num(0), Num(1), Str(""), Str("1")} ELSE {Num(0), Num(1)}
Patches(key) ==
  IF key = "users" THEN {Undefined, Null, PatchB, PatchNoId} ELSE {Null, PatchB}

NoCall == [op |-> "none", key |-> "", arg |-> Undefined]

\* no array helper has been applied
NoHelper == [op |-> "none", arr |-> Undefined, out |-> Undefined]

\* the execution contexts (browser tabs) that share the medium
Tabs == {"tab1", "tab2"}

\* the envelope of a call that has not returned yet
Pending == [state |-> FALSE, error |-> NoError, result |-> Undefined]

\* a context that is not inside a call and has made none
IdleTab == [pc |-> "idle", call |-> NoCall, seen |-> EmptyStorage, ret |-> Pending, calls |-> 0]

Init ==
  /\ window \in BOOLEAN
  /\ storage = EmptyStorage
  /\ before = EmptyStorage
  /\ call = NoCall
  /\ ret = Success
  /\ helper = NoHelper
  /\ tabs = [c \in Tabs |-> IdleTab]

\* the caller sees the envelope; the medium is what the operation left
Returns(op, key, arg, out) ==
  /\ before' = storage
  /\ call' = [op |-> op, key |-> key, arg |-> arg]
  /\ ret' = out.ret
  /\ storage' = out.storage
  /\ UNCHANGED <<window, helper, tabs>>

\* the length of the sequence stored under key, 0 when there is none
StoredLen(st, key) ==
  IF HasEntry(st, key) /\ IsArray(Parse(st[key])) THEN Len(Parse(st[key]).a) ELSE 0

initialize ==
  \E key \in Keys : \E d \in JsonValues(key) \cup {Undefined} :
    Returns("initialize", key, d, InitializeStorage(window, storage, key, d))

get ==
  \E key \in Keys :
    Returns("get", key, Undefined, Outcome(GetItem(window, storage, key), storage))

set ==
  \E key \in Keys : \E v \in JsonValues(key) :
    Returns("set", key, v, SetItem(window, storage, key, v))

push ==
  \E key \in Keys : \E item \in Items(key) :
    /\ StoredLen(storage, key) < MaxLen
    /\ Returns("push", key, item, PushItem(window, storage, key, item))

removeById ==
  \E key \in Keys : \E id \in Ids(key) :
    Returns("removeById", key, id, RemoveItem(window, storage, key, id))

updateById ==
  \E key \in Keys : \E p \in Patches(key) :
    Returns("updateById", key, p, UpdateItem(window, storage, key, p))

findById ==
  \E key \in Keys : \E id \in Ids(key) :
    Returns("findById", key, id, FindItemById(window, storage, key, id))

clear ==
  \E key \in Keys : Returns("clear", key, Undefined, Clear(window, storage, key))

clearAll ==
  Returns("clearAll", "", Undefined, ClearAll(window, storage))

Next ==
  \/ initialize
  \/ get
  \/ set
  \/ push
  \/ removeById
  \/ updateById
  \/ findById
  \/ clear
  \/ clearAll

Spec == Init /\ [][Next]_vars

(***************************************************************************)
(* The array helpers applied to sequences in memory                        *)
(***************************************************************************)
\* the sequences given to the helpers have at most this many elements
MaxSeq == 3

\* the values of the field the records are sorted by; Undefined: no such field
SortFields == {Undefined, Null, Num(1), Num(2), Num(-1)}

\* record number i, with v as its field "v"
SortRecord(i, v) ==
  IF v = Undefined THEN Obj(<< <<"id", Num(i)>> >>)
  ELSE Obj(<< <<"id", Num(i)>>, <<"v", v>> >>)

\* the sequences of records to sort: the records of one sequence differ in id
SortInputs ==
  UNION {{Arr([i \in 1..n |-> SortRecord(i, f[i])]) : f \in [1..n -> SortFields]}
         : n \in 0..MaxSeq}

\* records sorted by a string field, and an argument that is no array
OtherSortInputs ==
  {Arr(<<SortRecord(1, Str("b")), SortRecord(2, Str("A")), SortRecord(3, Null),
         SortRecord(4, Str("a"))>>),
   Null}

\* the JSON values of the sequences given to removeDuplicates; the last two
\* objects have the same properties, written in a different order
DuplicateValues ==
  {Obj(<< <<"a", Num(1)>> >>),
   Obj(<< <<"a", Num(2)>> >>),
   Num(1),
   Obj(<< <<"a", Num(1)>>, <<"b", Num(2)>> >>),
   Obj(<< <<"b", Num(2)>>, <<"a", Num(1)>> >>)}

DuplicateInputs ==
  UNION {{Arr(f) : f \in [1..n -> DuplicateValues]} : n \in 0..MaxSeq} \cup {Null}

\* a helper is a pure function: the sequence it is given is drawn at the start
InitHelpers ==
  /\ window = TRUE
  /\ storage = EmptyStorage
  /\ before = EmptyStorage
  /\ call = NoCall
  /\ ret = Success
  /\ tabs = [c \in Tabs |-> IdleTab]
  /\ helper \in {[op |-> "none", arr |-> arr, out |-> Undefined] :
                  arr \in SortInputs \cup OtherSortInputs \cup DuplicateInputs}

Applied(op, out) ==
  /\ helper' = [op |-> op, arr |-> helper.arr, out |-> out]
  /\ UNCHANGED <<window, storage, before, call, ret, tabs>>

ascendingOrder ==
  /\ helper.arr \in SortInputs \cup OtherSortInputs
  /\ Applied("ascendingOrder", AscendingOrder(helper.arr, "v"))

descendingOrder ==
  /\ helper.arr \in SortInputs \cup OtherSortInputs
  /\ Applied("descendingOrder", DescendingOrder(helper.arr, "v"))

removeDuplicates ==
  /\ helper.arr \in DuplicateInputs
  /\ Applied("removeDuplicates", RemoveDuplicates(helper.arr))

NextHelpers ==
  \/ ascendingOrder
  \/ descendingOrder
  \/ removeDuplicates

SpecHelpers == InitHelpers /\ [][NextHelpers]_vars

(***************************************************************************)
(* Two execution contexts sharing the medium                               *)
(***************************************************************************)
\* each context makes at most this many calls
MaxCalls == 2

\* the operations that read an entry of the medium and may then write it
ReadWriteOps == {"initialize", "push", "removeById", "updateById", "clear"}

\* the key both contexts work on
TabKeys == {"users"}

\* the arguments a context gives to op
TabArgs(op) ==
  CASE op = "initialize" -> {Undefined, Arr(<<>>)}
    [] op = "push" -> {Undefined, UserA, UserZ}
    [] op = "removeById" -> {Num(0), Num(1)}
    [] op = "updateById" -> {PatchB}
    [] OTHER -> {Undefined}

\* localStorage.getItem(key): the entry under key, if there is one
GetItemText(st, key) == [k \in DOMAIN st \cap {key} |-> st[k]]

\* the operation computed from the entry its read returned
Run(op, seen, key, arg) ==
  CASE op = "initialize" -> InitializeStorage(TRUE, seen, key, arg)
    [] op = "push" -> PushItem(TRUE, seen, key, arg)
    [] op = "removeById" -> RemoveItem(TRUE, seen, key, arg)
    [] op = "updateById" -> UpdateItem(TRUE, seen, key, arg)
    [] op = "clear" -> Clear(TRUE, seen, key)

\* mutant of WriteBack: the write is computed from the medium as it is now
WriteBackAtomic(op, seen, st, key, arg) ==
  LET out == Run(op, GetItemText(st, key), key, arg)
  IN IF out.ret.state THEN SetItemText(st, key, out.storage[key]) ELSE st

\* localStorage.setItem(key, ...) of a call that succeeds: the text computed
\* from what the call read replaces the entry, whatever the medium holds now
WriteBack(op, seen, st, key, arg) ==
  LET out == Run(op, seen, key, arg)
  IN IF out.ret.state THEN SetItemText(st, key, out.storage[key]) ELSE st

\* the contexts start with the medium empty or holding an empty sequence
InitTabs ==
  /\ window = TRUE
  /\ storage \in {EmptyStorage, SetItemText(EmptyStorage, "users", Stringify(Arr(<<>>)))}
  /\ before = storage
  /\ call = NoCall
  /\ ret = Success
  /\ helper = NoHelper
  /\ tabs = [c \in Tabs |-> IdleTab]

\* a context enters a call and runs it up to its localStorage.getItem
tabRead(c) ==
  /\ tabs[c].pc # "read"
  /\ tabs[c].calls < MaxCalls
  /\ \E op \in ReadWriteOps : \E key \in TabKeys : \E arg \in TabArgs(op) :
       /\ op = "push" => StoredLen(storage, key) < MaxLen
       /\ tabs' = [tabs EXCEPT ![c] =
                     [pc |-> "read",
                      call |-> [op |-> op, key |-> key, arg |-> arg],
                      seen |-> GetItemText(storage, key),
                      ret |-> Pending,
                      calls |-> tabs[c].calls + 1]]
  /\ UNCHANGED <<window, storage, before, call, ret, helper>>

\* the context runs the rest of the call: its tests, its localStorage.setItem
\* if it gets there, and its return
tabWrite(c) ==
  /\ tabs[c].pc = "read"
  /\ LET t == tabs[c]
     IN /\ storage' = WriteBack(t.call.op, t.seen, storage, t.call.key, t.call.arg)
        /\ tabs' = [tabs EXCEPT ![c].pc = "done",
                                ![c].ret = Run(t.call.op, t.seen, t.call.key, t.call.arg).ret]
  /\ UNCHANGED <<window, before, call, ret, helper>>

NextTabs ==
  \/ \E c \in Tabs : tabRead(c)
  \/ \E c \in Tabs : tabWrite(c)

SpecTabs == InitTabs /\ [][NextTabs]_vars

(***************************************************************************)
(* Properties.  `before` is the medium as the last call found it, `storage` *)
(* the medium as it left it, `call` its arguments and `ret` its envelope.   *)
(***************************************************************************)
\* the value stored under key, as get would deserialize it
Stored(st, key) == Parse(st[key])

\* a proper sequence is stored under key
HoldsSequence(st, key) == HasEntry(st, key) /\ IsArray(Stored(st, key))

\* the entries of every key other than key are the same in st1 and st2
SameElsewhere(st1, st2, key) ==
  \A j \in Keys \ {key} :
    /\ HasEntry(st1, j) <=> HasEntry(st2, j)
    /\ HasEntry(st1, j) => st1[j] = st2[j]

\* the indices of the elements of a whose id is id
Matching(a, id) == {i \in 1..Len(a) : GetProp(a[i], "id") = id}

\* C1: after a successful initialize(k, d), a second initialize(k, d') with a
\* default value that is not absent fails with already-initialized and leaves
\* the value written by the first call stored under k.
C1_SecondInitializeFails ==
  [][(/\ call.op = "initialize" /\ ret.state
      /\ call'.op = "initialize" /\ call'.key = call.key
      /\ call'.arg # Undefined)
     => (/\ ~ret'.state
         /\ ret'.error = ALREADY_EXISTS
         /\ storage' = storage
         /\ Stored(storage', call.key) = call.arg)]_vars

\* C2: removeById(k, id) on a key holding a proper sequence reports success and
\* leaves under k the stored sequence without the elements whose id equals id,
\* the others in their order (so the same sequence when no element matches),
\* for every id, 0 and the empty string included.
C2_RemoveByIdRemovesExactlyMatches ==
  (call.op = "removeById" /\ HoldsSequence(before, call.key))
  => (/\ ret.state
      /\ HasEntry(storage, call.key)
      /\ Stored(storage, call.key) =
           Arr(SelectSeq(Stored(before, call.key).a,
                         LAMBDA e : GetProp(e, "id") # call.arg)))

\* C3: with the medium available and a non-empty key k, set(k, v) succeeds
\* whatever was stored under k, and a get(k) on the medium it leaves succeeds
\* with a result equal to v.
C3_SetThenGetRoundTrip ==
  (call.op = "set" /\ window /\ call.key # "")
  => (/\ ret.state
      /\ GetItem(window, storage, call.key) = SuccessWith(call.arg))

\* a set of a falsy value over an entry that held something else
C3_Witness ==
  /\ call.op = "set" /\ ret.state
  /\ call.arg = Num(0)
  /\ HasEntry(before, call.key)
  /\ before[call.key] # storage[call.key]

\* C4: with a proper sequence stored under k, findById(k, id) fails with
\* unable-to-find exactly when no element has that id, otherwise succeeds with
\* the first element whose id equals id; storage is never changed.
C4_FindByIdFindsFirstMatch ==
  (call.op = "findById" /\ HoldsSequence(before, call.key))
  => LET a == Stored(before, call.key).a
         m == Matching(a, call.arg)
     IN /\ storage = before
        /\ (m = {}) <=> (ret.error = UNABLE_TO_FIND)
        /\ (m # {}) =>
             /\ ret.state
             /\ ret.result = a[CHOOSE i \in m : \A j \in m : i <= j]

\* C5: push(k, item) on a key with no entry, or whose stored value is not a
\* sequence, returns a failure envelope and leaves the whole medium as it was.
C5_PushWithoutSequenceFails ==
  (call.op = "push" /\ ~HoldsSequence(before, call.key))
  => (/\ ~ret.state
      /\ ret.error \in ErrorLS
      /\ storage = before)

\* a push of a present item on a key that holds null
C5_Witness ==
  /\ call.op = "push" /\ call.arg = UserA
  /\ HasEntry(before, call.key)
  /\ Stored(before, call.key) = Null
  /\ ~ret.state

\* new is old with p's properties overriding and old's other properties kept
Merged(old, p, new) ==
  /\ new.t = "object"
  /\ \A n \in {"id", "name", "age"} :
       /\ HasProp(new, n) <=> (HasProp(old, n) \/ HasProp(p, n))
       /\ HasProp(p, n) => GetProp(new, n) = GetProp(p, n)
       /\ (HasProp(old, n) /\ ~HasProp(p, n)) => GetProp(new, n) = GetProp(old, n)

\* C6: with a proper sequence stored under k and a present partial record p,
\* updateById(k, p) succeeds; the stored sequence keeps its length and order,
\* every element whose id equals p.id is merged with p (p's fields override,
\* the others are kept) and every other element is unchanged.
C6_UpdateByIdMerges ==
  (call.op = "updateById" /\ HoldsSequence(before, call.key) /\ call.arg.t = "object")
  => (/\ ret.state
      /\ HoldsSequence(storage, call.key)
      /\ LET old == Stored(before, call.key).a
             new == Stored(storage, call.key).a
         IN /\ Len(new) = Len(old)
            /\ \A i \in 1..Len(old) :
                 IF GetProp(old[i], "id") = GetProp(call.arg, "id")
                 THEN Merged(old[i], call.arg, new[i])
                 ELSE new[i] = old[i])

\* an update that changed an element and left another one alone
C6_Witness ==
  /\ call.op = "updateById" /\ ret.state /\ call.arg = PatchB
  /\ HoldsSequence(before, call.key)
  /\ Stored(before, call.key) = Arr(<<UserZ, UserA>>)
  /\ Stored(storage, call.key) = Arr(<<UserZ, UserB>>)

\* C7: in every envelope returned, the success flag is true exactly when no
\* error code is present, and an error code comes with no result payload.
C7_EnvelopeInvariant ==
  (call.op # "none")
  => (/\ ret.state <=> (ret.error = NoError)
      /\ (ret.error # NoError) => (ret.error \in ErrorLS /\ ret.result = Undefined))

\* a failure passed on from the sequence-retrieval step
C7_Witness ==
  /\ call.op \in {"push", "removeById", "updateById", "findById"}
  /\ ret.error = NOT_ARRAY_TYPE
  /\ ~ret.state

\* C8: with the medium available, clearAll() succeeds and erases every entry:
\* for every key that held an entry, get then fails with no-entry-for-key and
\* initialize succeeds again.
C8_ClearAllErasesEverything ==
  (call.op = "clearAll" /\ window)
  => (/\ ret.state
      /\ \A k \in Keys : ~HasEntry(storage, k)
      /\ \A k \in DOMAIN before :
           /\ GetItem(window, storage, k) = Failure(NOT_ASSOCIATED)
           /\ \A d \in JsonValues(k) :
                InitializeStorage(window, storage, k, d).ret.state)

\* a clearAll over a medium with a pushed sequence and a second entry
C8_Witness ==
  /\ call.op = "clearAll" /\ ret.state
  /\ DOMAIN before = {"users", "theme"}
  /\ Stored(before, "users") = Arr(<<UserA, UserZ>>)

\* C9 as stated (the medium being available): clear(k) fails with
\* no-entry-for-key, changing nothing, when k has no entry; otherwise it
\* succeeds, the entry under k stays and holds null (a following get returns
\* null, a second clear succeeds), and the other keys' entries are unchanged.
C9_ClearAsStated ==
  (call.op = "clear" /\ window)
  => IF ~HasEntry(before, call.key)
     THEN ret.error = NOT_ASSOCIATED /\ storage = before
     ELSE /\ ret.state
          /\ HasEntry(storage, call.key)
          /\ GetItem(window, storage, call.key) = SuccessWith(Null)
          /\ Clear(window, storage, call.key).ret.state
          /\ SameElsewhere(before, storage, call.key)

\* C9 amended: the above holds for a non-empty key k; clear of the empty key
\* (which never has an entry) fails with missing-key instead, and without the
\* medium clear fails with medium-unavailable, changing nothing either way.
C9_ClearAmended ==
  (call.op = "clear")
  => IF ~window THEN ret.error = WINDOW_IS_UNDEFINED /\ storage = before
     ELSE IF call.key = "" THEN ret.error = NO_KEY /\ storage = before
     ELSE IF ~HasEntry(before, call.key)
     THEN ret.error = NOT_ASSOCIATED /\ storage = before
     ELSE /\ ret.state
          /\ HasEntry(storage, call.key)
          /\ GetItem(window, storage, call.key) = SuccessWith(Null)
          /\ Clear(window, storage, call.key).ret.state
          /\ SameElsewhere(before, storage, call.key)

\* a clear of a stored sequence while another key holds an entry
C9_Witness ==
  /\ call.op = "clear" /\ ret.state /\ call.key = "users"
  /\ HoldsSequence(before, "users")
  /\ HasEntry(before, "theme")
  /\ Stored(storage, "users") = Null

\* C10: with a proper sequence s stored under k, push(k, item) with a present
\* (truthy) item succeeds and leaves s with item appended at the end; with an
\* absent, null or empty (falsy) item it fails with unable-to-add and leaves s.
C10_PushAppends ==
  (call.op = "push" /\ HoldsSequence(before, call.key))
  => IF Truthy(call.arg)
     THEN /\ ret.state
          /\ HasEntry(storage, call.key)
          /\ Stored(storage, call.key) = Arr(Append(Stored(before, call.key).a, call.arg))
     ELSE /\ ~ret.state
          /\ ret.error = UNABLE_TO_ADD
          /\ storage = before

\* a second successful push: the items are stored in the order pushed
C10_Witness ==
  /\ call.op = "push" /\ ret.state /\ call.arg = UserA
  /\ Stored(before, call.key) = Arr(<<UserZ>>)
  /\ Stored(storage, call.key) = Arr(<<UserZ, UserA>>)

\* the operations that start with the sequence-retrieval step
SequenceOps == {"push", "removeById", "updateById", "findById"}

\* C13: without the medium every operation fails with medium-unavailable,
\* whatever its arguments (an empty key, an absent default value), and the
\* medium is left as it was.
C13_UnavailableMediumFailsFirst ==
  (call.op # "none" /\ ~window)
  => (/\ ret = Failure(WINDOW_IS_UNDEFINED)
      /\ storage = before)

\* initialize with an empty key and no default value, without the medium
C13_Witness ==
  /\ ~window
  /\ call.op = "initialize" /\ call.key = "" /\ call.arg = Undefined
  /\ ret.error = WINDOW_IS_UNDEFINED

\* C14: the sequence operations fail with sequence-is-null when the value
\* stored under k deserializes to null, and with value-not-a-sequence when it
\* deserializes to a non-null value that is not a sequence.
C14_NullSequenceIsArrayNull ==
  (call.op \in SequenceOps /\ window /\ HasEntry(before, call.key))
  => LET v == Stored(before, call.key)
     IN /\ (v = Null) => (ret.error = ARRAY_NULL)
        /\ (v # Null /\ ~IsArray(v)) => (ret.error = NOT_ARRAY_TYPE)

\* C16: an operation that returns a failure envelope leaves every entry of the
\* medium unchanged; get and findById leave it unchanged in every case.
C16_FailureLeavesStorage ==
  /\ (call.op # "none" /\ ~ret.state) => storage = before
  /\ (call.op \in {"get", "findById"}) => storage = before

\* a rejected update of a stored sequence
C16_Witness ==
  /\ call.op = "updateById" /\ call.arg = Null
  /\ HoldsSequence(before, call.key)
  /\ ret.error = UNABLE_TO_UPDATE
  /\ storage = before

\* C17: a successful initialize, set, push, removeById, updateById or clear on
\* key k leaves the entry of every other key as it was, present or not; only
\* clearAll changes the entries of more than one key.
C17_SuccessChangesOnlyItsKey ==
  (call.op \in {"initialize", "set", "push", "removeById", "updateById", "clear"}
   /\ ret.state)
  => SameElsewhere(before, storage, call.key)

\* a set on one key while the other key holds an entry
C17_Witness ==
  /\ call.op = "set" /\ ret.state /\ call.key = "theme"
  /\ HoldsSequence(before, "users")
  /\ before["users"] = storage["users"]
  /\ ~HasEntry(before, "theme")

\* the value of the field "v" of element i of the sequence a
FieldV(a, i) == GetProp(a[i], "v")

\* every record of the sequence has a null, undefined or numeric field "v"
NumericOrNullish(a) ==
  \A i \in 1..Len(a) : IsNullish(FieldV(a, i)) \/ FieldV(a, i).t = "number"

\* b holds the elements of a, each as often as a does
IsPermutation(a, b) ==
  /\ Len(a) = Len(b)
  /\ \A x \in {a[i] : i \in 1..Len(a)} \cup {b[i] : i \in 1..Len(b)} :
       Cardinality({i \in 1..Len(a) : a[i] = x})
         = Cardinality({i \in 1..Len(b) : b[i] = x})

\* C11: for records whose field v is null, undefined or a number, both
\* ascendingOrder and descendingOrder return a permutation of the input with
\* every null/undefined v after every other one, the others in non-decreasing
\* order for ascendingOrder and in non-increasing order for descendingOrder.
C11_SortPutsNullsLast ==
  (/\ helper.op \in {"ascendingOrder", "descendingOrder"}
   /\ IsArray(helper.arr)
   /\ NumericOrNullish(helper.arr.a))
  => (/\ IsArray(helper.out)
      /\ IsPermutation(helper.arr.a, helper.out.a)
      /\ LET out == helper.out.a
         IN \A i, j \in 1..Len(out) :
              (i < j) =>
                /\ IsNullish(FieldV(out, i)) => IsNullish(FieldV(out, j))
                /\ (~IsNullish(FieldV(out, i)) /\ ~IsNullish(FieldV(out, j))) =>
                     IF helper.op = "ascendingOrder"
                     THEN FieldV(out, i).n <= FieldV(out, j).n
                     ELSE FieldV(out, i).n >= FieldV(out, j).n)

\* the spec's example, sorted in descending order: [null, 2, 1] gives [2, 1, null]
C11_Witness ==
  /\ helper.op = "descendingOrder"
  /\ helper.arr = Arr(<<SortRecord(1, Null), SortRecord(2, Num(2)), SortRecord(3, Num(1))>>)
  /\ helper.out = Arr(<<SortRecord(2, Num(2)), SortRecord(3, Num(1)), SortRecord(1, Null)>>)

\* deep structural equality of JSON values: the same type, the same elements
\* in order, the same properties with equal values, whatever their order
RECURSIVE StructurallyEqual(_, _)
StructurallyEqual(x, y) ==
  /\ x.t = y.t
  /\ CASE x.t = "array" ->
            /\ Len(x.a) = Len(y.a)
            /\ \A i \in 1..Len(x.a) : StructurallyEqual(x.a[i], y.a[i])
       [] x.t = "object" ->
            /\ {m[1] : m \in {x.o[i] : i \in 1..Len(x.o)}}
                 = {m[1] : m \in {y.o[i] : i \in 1..Len(y.o)}}
            /\ \A i \in 1..Len(x.o) :
                 StructurallyEqual(x.o[i][2], GetProp(y, x.o[i][1]))
       [] OTHER -> x = y

\* C12: removeDuplicates(seq) has no two structurally equal elements, holds
\* exactly the structural values of seq, and is left as it is by a second
\* removeDuplicates.
C12_RemoveDuplicatesKeepsOnePerValue ==
  (helper.op = "removeDuplicates" /\ IsArray(helper.arr))
  => (/\ IsArray(helper.out)
      /\ LET in == helper.arr.a
             out == helper.out.a
         IN /\ \A i, j \in 1..Len(out) :
                 StructurallyEqual(out[i], out[j]) => i = j
            /\ \A i \in 1..Len(in) : \E j \in 1..Len(out) :
                 StructurallyEqual(in[i], out[j])
            /\ \A j \in 1..Len(out) : \E i \in 1..Len(in) :
                 StructurallyEqual(out[j], in[i])
      /\ RemoveDuplicates(helper.out) = helper.out)

\* contexts c and d have both returned from a successful push under the same
\* key, and both pushes were computed from the same stored sequence
BothPushed(c, d) ==
  /\ c # d
  /\ tabs[c].pc = "done" /\ tabs[d].pc = "done"
  /\ tabs[c].call.op = "push" /\ tabs[d].call.op = "push"
  /\ tabs[c].call.key = tabs[d].call.key
  /\ tabs[c].seen = tabs[d].seen
  /\ tabs[c].ret.state /\ tabs[d].ret.state

\* the medium changes only in the step that ends a successful call, and only
\* under that call's key; the step that reads leaves the medium alone
OneWritePerCall ==
  /\ storage' # storage =>
       \E c \in Tabs :
         /\ tabs[c].pc = "read" /\ tabs'[c].pc = "done"
         /\ tabs'[c].ret.state
         /\ SameElsewhere(storage, storage', tabs[c].call.key)
         /\ \A d \in Tabs \ {c} : tabs'[d] = tabs[d]
  /\ \A c \in Tabs :
       (tabs[c].pc # "read" /\ tabs'[c].pc = "read") => storage' = storage

\* C15: a call reads the medium in one step and writes it, at most once, in a
\* later step; when two contexts push a and b onto the same stored sequence s,
\* each having read s, and both succeed, the medium ends holding s with a
\* alone or s with b alone appended: one of the two pushes is lost.
C15_ReadThenWriteLosesUpdate ==
  /\ [][OneWritePerCall]_vars
  /\ [](\A c, d \in Tabs :
          BothPushed(c, d) =>
            LET k == tabs[c].call.key
                s == Stored(tabs[c].seen, k).a
            IN Stored(storage, k) \in {Arr(Append(s, tabs[c].call.arg)),
                                       Arr(Append(s, tabs[d].call.arg))})

\* tab1 pushed UserA and tab2 pushed UserZ, both onto the empty sequence and
\* both with success; the medium holds UserZ alone
C15_Witness ==
  /\ BothPushed("tab1", "tab2")
  /\ tabs["tab1"].call.arg = UserA
  /\ tabs["tab2"].call.arg = UserZ
  /\ Stored(tabs["tab1"].seen, "users") = Arr(<<>>)
  /\ Stored(storage, "users") = Arr(<<UserZ>>)

====
